---- MODULE Spec2Model ----
(***************************************************************************)
(* apopy.Client (src/apopy/__init__.py): the local cache, the notification *)
(* state and the three public operations update, get and                   *)
(* read_notification_and_update, each with every HTTP request it issues.   *)
(* The config server is the environment: the response to each request is   *)
(* an input of the call.                                                   *)
(***************************************************************************)
EXTENDS Integers, Sequences, FiniteSets, TLC

VARIABLES
    cache,                      \* self.cache: root_key -> Configurations
    read_notification_cache,    \* self.read_notification_cache: namespaceName -> notificationId
    last,                       \* the call that has just returned or raised, as its caller saw it
    ip,                         \* self.ip, set by the constructor
    secret                      \* self.secret, set by the constructor

vars == <<cache, read_notification_cache, last, ip, secret>>

----------------------------------------------------------------------------
(* Bounds of the environment *)

\* longest array of change notices a 200 poll response carries
MaxNotices == 2

----------------------------------------------------------------------------
(* Python values *)

\* Python's None; str(None) is "None", which is what str.format makes of it
None == "None"

\* {}
EmptyDict == [x \in {} |-> None]

\* d[k] = v
DictSet(d, k, v) == [x \in (DOMAIN d) \cup {k} |-> IF x = k THEN v ELSE d[x]]

\* d.get(k, default)
DictGet(d, k, default) == IF k \in DOMAIN d THEN d[k] ELSE default

\* class NamespaceType(Enum), by value
NamespaceType == {"properties", "xml", "json", "yml", "yaml", "txt"}
PROPERTIES == "properties"

----------------------------------------------------------------------------
(* The constructed client: Client("http://h", "app1", ip=..., secret=...) *)

config_server_url == "http://h"
app_id == "app1"
cluster_name == "default"

----------------------------------------------------------------------------
(* The calls the application makes and the answers the server gives *)

Namespaces == {"application", "other"}
\* the namespace identities (namespace, namespace_type) the application uses
Identities == {<<"application", "properties">>, <<"other", "json">>}
\* the status of a response that is neither 200 nor 304
ErrorStatuses == {404}
\* notification ids the server hands out
NotificationIds == {17135, 17136}
Keys == {"timeout"}
Values == {"30"}
QueryKeys == Keys \cup {"missing"}
Defaults == {None, "0"}

\* Configurations = Dict[str, str]
Configurations == UNION {[S -> Values] : S \in SUBSET Keys}

\* what no exception looks like in a call's outcome
NoError == [status_code |-> 0, text |-> ""]

\* One HTTP exchange, as the environment decides it: the response (status_code,
\* text, json), and time, what time.time() returns while the request is prepared,
\* in microseconds.  A client without a secret never reads the clock.
Times == {1500250, 1501750}
UnreadTime == 1500250

\* the responses of the cached endpoint (the body is the mapping itself) of a
\* server holding one of the mappings C, while the clock shows one of T
CachedResponsesOf(C, T) ==
    {[status_code |-> 200, text |-> "", json |-> c, time |-> t] : c \in C, t \in T}
    \cup {[status_code |-> s, text |-> "error", json |-> EmptyDict, time |-> t] :
             s \in ErrorStatuses, t \in T}
CachedResponses == CachedResponsesOf(Configurations, {UnreadTime})

\* the responses of the uncached endpoint: the body is an envelope
UncachedResponsesOf(C, T) ==
    {[status_code |-> 200, text |-> "",
      json |-> [configurations |-> c, releaseKey |-> "r1"], time |-> t] : c \in C, t \in T}
    \cup {[status_code |-> s, text |-> "error",
           json |-> [configurations |-> EmptyDict, releaseKey |-> ""],
           time |-> t] : s \in ErrorStatuses, t \in T}
UncachedResponses == UncachedResponsesOf(Configurations, {UnreadTime})

\* a request the client never came to make has no response
NotAskedCached == [status_code |-> 0, text |-> "", json |-> EmptyDict, time |-> UnreadTime]
NotAskedUncached ==
    [status_code |-> 0, text |-> "",
     json |-> [configurations |-> EmptyDict, releaseKey |-> ""], time |-> UnreadTime]

\* what the server answers to the reads of one update(call_cache_api=True): one
\* response per endpoint, the uncached one only when the cached read succeeded
FailingAnswersOf(cached, uncached) ==
    {[cached |-> r, uncached |-> NotAskedUncached] :
        r \in {x \in cached : x.status_code # 200}}
    \cup {[cached |-> r, uncached |-> q] :
        r \in {x \in cached : x.status_code = 200},
        q \in {x \in uncached : x.status_code # 200}}
FailingAnswers == FailingAnswersOf(CachedResponses, UncachedResponses)
SucceedingAnswersOf(cached, uncached) ==
    {[cached |-> r, uncached |-> q] :
        r \in {x \in cached : x.status_code = 200},
        q \in {x \in uncached : x.status_code = 200}}
SucceedingAnswers == SucceedingAnswersOf(CachedResponses, UncachedResponses)

\* what the server answers to the reads of one update, by its flag
ReadAnswersOf(cached, uncached, call_cache_api) ==
    IF call_cache_api
    THEN FailingAnswersOf(cached, uncached) \cup SucceedingAnswersOf(cached, uncached)
    ELSE {[cached |-> NotAskedCached, uncached |-> q] : q \in uncached}
ReadAnswers(call_cache_api) == ReadAnswersOf(CachedResponses, UncachedResponses, call_cache_api)

\* a change notice of a 200 poll response (its "messages" are never read)
Notices == [namespaceName : Namespaces, notificationId : NotificationIds]

\* the arrays of up to m change notices of a 200 poll response: a poll asks about
\* one namespace, and the notices of one response are about one namespace
NoticeArraysOf(N, m) ==
    {msgs \in UNION {[1..k -> N] : k \in 0..m} :
        \A i, j \in DOMAIN msgs : msgs[i].namespaceName = msgs[j].namespaceName}
NoticeArrays == NoticeArraysOf(Notices, MaxNotices)

\* the responses of the notification long poll
PollResponsesOf(arrays, T) ==
    {[status_code |-> 200, text |-> "", json |-> msgs, time |-> t] :
        msgs \in arrays, t \in T}
    \cup {[status_code |-> s, text |-> "error", json |-> <<>>, time |-> t] :
             s \in {304} \cup ErrorStatuses, t \in T}
PollResponses == PollResponsesOf(NoticeArrays, {UnreadTime})

\* what the server answers to the reads of the updates of one poll with k notices:
\* the loop stops at the first update that raises
RECURSIVE AnswersOfLoopOf(_, _, _)
AnswersOfLoopOf(succeeding, failing, k) ==
    IF k = 0 THEN {<<>>}
    ELSE {<<a>> \o rest : a \in succeeding, rest \in AnswersOfLoopOf(succeeding, failing, k - 1)}
         \cup {[i \in 1..k |-> IF i = 1 THEN a
                               ELSE [cached |-> NotAskedCached, uncached |-> NotAskedUncached]] :
                 a \in failing}
AnswersOfLoop(k) == AnswersOfLoopOf(SucceedingAnswers, FailingAnswers, k)
PollAnswersByLength == {<<k, AnswersOfLoop(k)>> : k \in 0..MaxNotices}
PollAnswersIn(byLength, k) == (CHOOSE p \in byLength : p[1] = k)[2]
PollAnswers(k) == PollAnswersIn(PollAnswersByLength, k)

\* what a server holding one of the mappings C, telling of the change notices
\* N, up to m per poll, answers while the clock shows one of T
ExchangesOf(C, N, m, T) ==
    LET cached   == CachedResponsesOf(C, T)
        uncached == UncachedResponsesOf(C, T)
    IN  [ answers_true  |-> ReadAnswersOf(cached, uncached, TRUE),
          answers_false |-> ReadAnswersOf(cached, uncached, FALSE),
          polls         |-> PollResponsesOf(NoticeArraysOf(N, m), T),
          loops         |-> {<<k, AnswersOfLoopOf(SucceedingAnswersOf(cached, uncached),
                                                  FailingAnswersOf(cached, uncached), k)>> :
                                k \in 0..m} ]

\* The callers, the server and the clock of a client that never signs: what the
\* calls are made with and answered with
World ==
    [ identities |-> Identities,
      ips        |-> {None},
      secrets    |-> {None},
      keys       |-> QueryKeys,
      defaults   |-> Defaults,
      unsigned   |-> [ answers_true  |-> ReadAnswers(TRUE),
                       answers_false |-> ReadAnswers(FALSE),
                       polls         |-> PollResponses,
                       loops         |-> PollAnswersByLength ],
      signed     |-> [ answers_true  |-> {},
                       answers_false |-> {},
                       polls         |-> {},
                       loops         |-> {} ] ]

\* The same for the requests of clients of every configuration: a namespace of
\* each type, a server with nothing configured that tells of at most
\* MaxRequestNotices changes per poll, and, for the clients that sign, a clock
\* that shows either of two times
MaxRequestNotices == 1
RequestIdentities == {<<"application", t>> : t \in NamespaceType}
RequestNotices == {[namespaceName |-> "application", notificationId |-> 17135]}
RequestWorld ==
    [ identities |-> RequestIdentities,
      ips        |-> {None, "10.0.0.1"},
      secrets    |-> {None, "s3cret"},
      keys       |-> Keys,
      defaults   |-> {None},
      unsigned   |-> ExchangesOf({EmptyDict}, RequestNotices, MaxRequestNotices, {UnreadTime}),
      signed     |-> ExchangesOf({EmptyDict}, RequestNotices, MaxRequestNotices, Times) ]

----------------------------------------------------------------------------
(* Client._read and the two endpoints *)

\* root_key = f"{namespace}.{namespace_type.value}"
RootKey(namespace, namespace_type) == namespace \o "." \o namespace_type

\* _namespace of Client._read with the suffix on every type
WireNamespace_always_suffixed(namespace, namespace_type) ==
    namespace \o "." \o namespace_type

\* _namespace of Client._read
WireNamespace(namespace, namespace_type) ==
    IF namespace_type # PROPERTIES
    THEN namespace \o "." \o namespace_type
    ELSE namespace

\* A URL is kept in the parts its f-string is written in: the server, the path
\* and the parameters after the "?", each a name and a value.
RECURSIVE QueryString(_)
QueryString(query) ==
    IF query = <<>> THEN ""
    ELSE query[1].name \o "=" \o query[1].value
         \o (IF Len(query) = 1 THEN "" ELSE "&" \o QueryString(Tail(query)))

PathAndQuery(url) == url.path \o "?" \o QueryString(url.query)
UrlString(url) == url.server \o PathAndQuery(url)

\* url of Client._read; str(None) is "None"
ReadUrl(api_path, namespace, namespace_type) ==
    [ server |-> config_server_url,
      path   |-> "/" \o api_path \o "/" \o app_id \o "/" \o cluster_name
                 \o "/" \o WireNamespace(namespace, namespace_type),
      query  |-> <<[name |-> "ip", value |-> ip]>> ]

\* _signature: base64 of the HMAC-SHA1 of string_to_sign under the secret,
\* kept as the expression that names its key and its message
_signature(timestamp, uri, secret_) ==
    LET string_to_sign == timestamp \o "\n" \o uri
    IN  "base64(hmac_sha1(" \o secret_ \o "," \o string_to_sign \o "))"

\* _get_auth signing the whole url
_get_auth_of_whole_url(url, t) ==
    LET ms == ToString(t \div 1000)
    IN  [ms |-> ms, sign |-> _signature(ms, UrlString(url), secret)]

\* Client._get_auth when time.time() returns t microseconds: url begins with
\* config_server_url, and the slice from len(config_server_url) is the rest
_get_auth(url, t) ==
    LET ms  == ToString(t \div 1000)
        uri == PathAndQuery(url)
    IN  [ms |-> ms, sign |-> _signature(ms, uri, secret)]

\* _prepare_header without its early return
_prepare_header_unconditional(url, t) ==
    LET auth == _get_auth(url, t)
    IN  [Authorization |-> "Apollo " \o app_id \o ":" \o auth.sign, Timestamp |-> auth.ms]

\* Client._prepare_header
_prepare_header(url, t) ==
    IF secret = None
    THEN EmptyDict
    ELSE LET auth == _get_auth(url, t)
         IN  [Authorization |-> "Apollo " \o app_id \o ":" \o auth.sign,
              Timestamp |-> auth.ms]

\* httpx.get(url, headers=self._prepare_header(url), ...) of Client._read
ReadRequest(api_path, namespace, namespace_type, r) ==
    LET url == ReadUrl(api_path, namespace, namespace_type)
    IN  [api_path |-> api_path, namespace |-> namespace, namespace_type |-> namespace_type,
         url |-> url, headers |-> _prepare_header(url, r.time), response |-> r]

\* _read without its status check: whatever the status, the body is returned
_read_without_status_check(api_path, namespace, namespace_type, r) ==
    [ request |-> ReadRequest(api_path, namespace, namespace_type, r),
      raised  |-> FALSE,
      error   |-> NoError,
      value   |-> r.json ]

\* Client._read with the response r the server gives to its request
_read(api_path, namespace, namespace_type, r) ==
    [ request |-> ReadRequest(api_path, namespace, namespace_type, r),
      raised  |-> r.status_code # 200,
      error   |-> IF r.status_code # 200
                  THEN [status_code |-> r.status_code, text |-> r.text]
                  ELSE NoError,
      value   |-> r.json ]

read_namespace_with_cache(namespace, namespace_type, r) ==
    _read("configfiles/json", namespace, namespace_type, r)

read_namespace_without_cache(namespace, namespace_type, r) ==
    _read("configs", namespace, namespace_type, r)

----------------------------------------------------------------------------
(* Client.update: the cache after it, what it raised, the requests it made *)

\* update with the else its if lacks: the flag selects the one endpoint read
update_if_else(c, namespace, namespace_type, call_cache_api, answers) ==
    LET root_key == RootKey(namespace, namespace_type)
        read == IF call_cache_api
                THEN read_namespace_with_cache(namespace, namespace_type, answers.cached)
                ELSE read_namespace_without_cache(namespace, namespace_type, answers.uncached)
    IN  IF read.raised
        THEN [cache |-> c, raised |-> TRUE, error |-> read.error, requests |-> <<read.request>>]
        ELSE [cache |-> DictSet(c, root_key, IF call_cache_api THEN read.value
                                             ELSE read.value.configurations),
              raised |-> FALSE, error |-> NoError, requests |-> <<read.request>>]

\* d.update(m): the keys of m set in d, the other keys of d kept
DictUpdate(d, m) == [x \in (DOMAIN d) \cup (DOMAIN m) |-> IF x \in DOMAIN m THEN m[x] ELSE d[x]]

\* update merging the response into the entry (self.cache[root_key].update(...))
\* instead of replacing the entry
update_merging(c, namespace, namespace_type, call_cache_api, answers) ==
    LET root_key == RootKey(namespace, namespace_type)
        first  == read_namespace_with_cache(namespace, namespace_type, answers.cached)
        c1     == IF call_cache_api
                  THEN DictSet(c, root_key, DictUpdate(DictGet(c, root_key, EmptyDict), first.value))
                  ELSE c
        reqs1  == IF call_cache_api THEN <<first.request>> ELSE <<>>
        second == read_namespace_without_cache(namespace, namespace_type, answers.uncached)
    IN  IF call_cache_api /\ first.raised
        THEN [cache |-> c, raised |-> TRUE, error |-> first.error, requests |-> reqs1]
        ELSE IF second.raised
        THEN [cache |-> c1, raised |-> TRUE, error |-> second.error,
              requests |-> Append(reqs1, second.request)]
        ELSE [cache |-> DictSet(c1, root_key,
                                DictUpdate(DictGet(c1, root_key, EmptyDict),
                                           second.value.configurations)),
              raised |-> FALSE, error |-> NoError,
              requests |-> Append(reqs1, second.request)]

update(c, namespace, namespace_type, call_cache_api, answers) ==
    LET root_key == RootKey(namespace, namespace_type)
        first  == read_namespace_with_cache(namespace, namespace_type, answers.cached)
        c1     == IF call_cache_api THEN DictSet(c, root_key, first.value) ELSE c
        reqs1  == IF call_cache_api THEN <<first.request>> ELSE <<>>
        second == read_namespace_without_cache(namespace, namespace_type, answers.uncached)
    IN  IF call_cache_api /\ first.raised
        THEN [cache |-> c, raised |-> TRUE, error |-> first.error, requests |-> reqs1]
        ELSE IF second.raised
        THEN [cache |-> c1, raised |-> TRUE, error |-> second.error,
              requests |-> Append(reqs1, second.request)]
        ELSE [cache |-> DictSet(c1, root_key, second.value.configurations),
              raised |-> FALSE, error |-> NoError,
              requests |-> Append(reqs1, second.request)]

----------------------------------------------------------------------------
(* Client.get *)

\* a KeyError
KeyError == [status_code |-> -1, text |-> "KeyError"]

\* get ending in self.cache[root_key][key]: a missing key raises KeyError
get_subscript(c, key, default, namespace, namespace_type, call_cache_api, answers) ==
    LET root_key == RootKey(namespace, namespace_type)
        live == read_namespace_without_cache(namespace, namespace_type, answers.uncached)
        miss == root_key \notin DOMAIN c
        u    == update(c, namespace, namespace_type, call_cache_api, answers)
        c2   == IF miss THEN u.cache ELSE c
        reqs == IF miss THEN u.requests ELSE <<>>
        n    == IF miss THEN 1 ELSE 0
    IN  IF ~call_cache_api
        THEN [cache |-> c, raised |-> live.raised, error |-> live.error,
              requests |-> <<live.request>>, updates |-> 0,
              value |-> IF live.raised THEN None
                        ELSE DictGet(live.value.configurations, key, default)]
        ELSE IF miss /\ u.raised
        THEN [cache |-> u.cache, raised |-> TRUE, error |-> u.error,
              requests |-> u.requests, updates |-> 1, value |-> None]
        ELSE IF key \notin DOMAIN c2[root_key]
        THEN [cache |-> c2, raised |-> TRUE, error |-> KeyError,
              requests |-> reqs, updates |-> n, value |-> None]
        ELSE [cache |-> c2, raised |-> FALSE, error |-> NoError,
              requests |-> reqs, updates |-> n, value |-> c2[root_key][key]]

\* get keeping what its live read returned as the entry
get_live_read_cached(c, key, default, namespace, namespace_type, call_cache_api, answers) ==
    LET root_key == RootKey(namespace, namespace_type)
        live == read_namespace_without_cache(namespace, namespace_type, answers.uncached)
        miss == root_key \notin DOMAIN c
        u    == update(c, namespace, namespace_type, call_cache_api, answers)
    IN  IF ~call_cache_api
        THEN [cache |-> IF live.raised THEN c
                        ELSE DictSet(c, root_key, live.value.configurations),
              raised |-> live.raised, error |-> live.error,
              requests |-> <<live.request>>, updates |-> 0,
              value |-> IF live.raised THEN None
                        ELSE DictGet(live.value.configurations, key, default)]
        ELSE IF miss /\ u.raised
        THEN [cache |-> u.cache, raised |-> TRUE, error |-> u.error,
              requests |-> u.requests, updates |-> 1, value |-> None]
        ELSE IF miss
        THEN [cache |-> u.cache, raised |-> FALSE, error |-> NoError,
              requests |-> u.requests, updates |-> 1,
              value |-> DictGet(u.cache[root_key], key, default)]
        ELSE [cache |-> c, raised |-> FALSE, error |-> NoError,
              requests |-> <<>>, updates |-> 0,
              value |-> DictGet(c[root_key], key, default)]

\* get through the cache updating on every call, entry or no entry
get_always_updating(c, key, default, namespace, namespace_type, call_cache_api, answers) ==
    LET root_key == RootKey(namespace, namespace_type)
        live == read_namespace_without_cache(namespace, namespace_type, answers.uncached)
        u    == update(c, namespace, namespace_type, call_cache_api, answers)
    IN  IF ~call_cache_api
        THEN [cache |-> c, raised |-> live.raised, error |-> live.error,
              requests |-> <<live.request>>, updates |-> 0,
              value |-> IF live.raised THEN None
                        ELSE DictGet(live.value.configurations, key, default)]
        ELSE IF u.raised
        THEN [cache |-> u.cache, raised |-> TRUE, error |-> u.error,
              requests |-> u.requests, updates |-> 1, value |-> None]
        ELSE [cache |-> u.cache, raised |-> FALSE, error |-> NoError,
              requests |-> u.requests, updates |-> 1,
              value |-> DictGet(u.cache[root_key], key, default)]

get(c, key, default, namespace, namespace_type, call_cache_api, answers) ==
    LET root_key == RootKey(namespace, namespace_type)
        live == read_namespace_without_cache(namespace, namespace_type, answers.uncached)
        miss == root_key \notin DOMAIN c
        u    == update(c, namespace, namespace_type, call_cache_api, answers)
    IN  IF ~call_cache_api
        THEN [cache |-> c, raised |-> live.raised, error |-> live.error,
              requests |-> <<live.request>>, updates |-> 0,
              value |-> IF live.raised THEN None
                        ELSE DictGet(live.value.configurations, key, default)]
        ELSE IF miss /\ u.raised
        THEN [cache |-> u.cache, raised |-> TRUE, error |-> u.error,
              requests |-> u.requests, updates |-> 1, value |-> None]
        ELSE IF miss
        THEN [cache |-> u.cache, raised |-> FALSE, error |-> NoError,
              requests |-> u.requests, updates |-> 1,
              value |-> DictGet(u.cache[root_key], key, default)]
        ELSE [cache |-> c, raised |-> FALSE, error |-> NoError,
              requests |-> <<>>, updates |-> 0,
              value |-> DictGet(c[root_key], key, default)]

----------------------------------------------------------------------------
(* Client._read_notification *)

\* the id sent when the ids recorded are never consulted
SentNotificationId_never_recorded(n, namespace) == -1

\* the notificationId of the one item of notifications
SentNotificationId(n, namespace) ==
    IF namespace \in DOMAIN n THEN n[namespace] ELSE -1

\* full_url: urlencode quotes the json.dumps of the notifications list
NotificationUrl(namespace, notificationId) ==
    [ server |-> config_server_url,
      path   |-> "/notifications/v2",
      query  |-> << [name |-> "appId", value |-> app_id],
                    [name |-> "cluster", value |-> cluster_name],
                    [name |-> "notifications",
                     value |-> "%5B%7B%22namespaceName%22%3A+%22" \o namespace
                               \o "%22%2C+%22notificationId%22%3A+"
                               \o ToString(notificationId) \o "%7D%5D"] >> ]

\* httpx.get(full_url, headers=self._prepare_header(full_url), ...) of
\* Client._read_notification
NotificationRequest(n, namespace, r) ==
    LET notificationId == SentNotificationId(n, namespace)
        full_url == NotificationUrl(namespace, notificationId)
    IN  [api_path |-> "notifications/v2",
         notifications |-> <<[namespaceName |-> namespace,
                              notificationId |-> notificationId]>>,
         url |-> full_url, headers |-> _prepare_header(full_url, r.time), response |-> r]

\* _read_notification without its 304 branch
_read_notification_without_304(n, namespace, r) ==
    [ request |-> NotificationRequest(n, namespace, r),
      raised  |-> r.status_code # 200,
      error   |-> IF r.status_code # 200
                  THEN [status_code |-> r.status_code, text |-> r.text]
                  ELSE NoError,
      value   |-> r.json ]

\* _read_notification returning the body of every response that is not a 304
_read_notification_without_status_check(n, namespace, r) ==
    [ request |-> NotificationRequest(n, namespace, r),
      raised  |-> FALSE,
      error   |-> NoError,
      value   |-> IF r.status_code = 304 THEN <<>> ELSE r.json ]

\* Client._read_notification with the response r the server gives to the poll
_read_notification(n, namespace, r) ==
    [ request |-> NotificationRequest(n, namespace, r),
      raised  |-> r.status_code # 304 /\ r.status_code # 200,
      error   |-> IF r.status_code # 304 /\ r.status_code # 200
                  THEN [status_code |-> r.status_code, text |-> r.text]
                  ELSE NoError,
      value   |-> IF r.status_code = 304 THEN <<>> ELSE r.json ]

----------------------------------------------------------------------------
(* Client.read_notification_and_update *)

\* line 265 keyed by the notice's own namespaceName
set_notification_id_of_notice_namespace(n, namespace, notification_msgs, i) ==
    DictSet(n, notification_msgs[i].namespaceName, notification_msgs[i].notificationId)

\* line 265 taking the id of the first notice
set_notification_id_of_first_notice(n, namespace, notification_msgs, i) ==
    DictSet(n, namespace, notification_msgs[1].notificationId)

\* self.read_notification_cache[namespace] = msg["notificationId"], msg the i-th notice
set_notification_id(n, namespace, notification_msgs, i) ==
    DictSet(n, namespace, notification_msgs[i].notificationId)

\* the loop with the two statements of its body swapped: the id is recorded before
\* the refresh
RECURSIVE for_msg_id_before_update(_, _, _, _, _, _)
for_msg_id_before_update(st, namespace, namespace_type, notification_msgs, answers, i) ==
    IF i > Len(notification_msgs) THEN st
    ELSE LET u   == update(st.cache, namespace, namespace_type, TRUE, answers[i])
             st1 == [st EXCEPT !.cache = u.cache,
                               !.requests = @ \o u.requests,
                               !.updates = @ + 1,
                               !.read_notification_cache =
                                   set_notification_id(@, namespace, notification_msgs, i)]
         IN  IF u.raised
             THEN [st1 EXCEPT !.raised = TRUE, !.error = u.error]
             ELSE for_msg_id_before_update(st1, namespace, namespace_type,
                                           notification_msgs, answers, i + 1)

\* the for loop over notification_msgs, from its i-th message on; st is the client
\* and what the call did so far
RECURSIVE for_msg_in_notification_msgs(_, _, _, _, _, _)
for_msg_in_notification_msgs(st, namespace, namespace_type, notification_msgs, answers, i) ==
    IF i > Len(notification_msgs) THEN st
    ELSE LET u   == update(st.cache, namespace, namespace_type, TRUE, answers[i])
             st1 == [st EXCEPT !.cache = u.cache,
                               !.requests = @ \o u.requests,
                               !.updates = @ + 1]
         IN  IF u.raised
             THEN [st1 EXCEPT !.raised = TRUE, !.error = u.error]
             ELSE for_msg_in_notification_msgs(
                      [st1 EXCEPT !.read_notification_cache =
                           set_notification_id(@, namespace, notification_msgs, i)],
                      namespace, namespace_type, notification_msgs, answers, i + 1)

\* read_notification_and_update refreshing for the first notice only
read_notification_and_update_first_notice_only(c, n, namespace, namespace_type, r, answers) ==
    LET rn == _read_notification(n, namespace, r)
        st == [cache |-> c, read_notification_cache |-> n, raised |-> rn.raised,
               error |-> rn.error, requests |-> <<rn.request>>, updates |-> 0]
    IN  IF rn.raised THEN st
        ELSE IF Len(rn.value) = 0 THEN st
        ELSE for_msg_in_notification_msgs(st, namespace, namespace_type,
                                          SubSeq(rn.value, 1, 1), answers, 1)

\* an IndexError
IndexError == [status_code |-> -1, text |-> "IndexError"]

\* read_notification_and_update without line 259, recording the id after the
\* loop as notification_msgs[-1]["notificationId"]: an empty array raises
read_notification_and_update_indexing_last_notice(c, n, namespace, namespace_type, r, answers) ==
    LET rn == _read_notification(n, namespace, r)
        st == [cache |-> c, read_notification_cache |-> n, raised |-> rn.raised,
               error |-> rn.error, requests |-> <<rn.request>>, updates |-> 0]
    IN  IF rn.raised THEN st
        ELSE IF Len(rn.value) = 0 THEN [st EXCEPT !.raised = TRUE, !.error = IndexError]
        ELSE for_msg_in_notification_msgs(st, namespace, namespace_type, rn.value, answers, 1)

read_notification_and_update(c, n, namespace, namespace_type, r, answers) ==
    LET rn == _read_notification(n, namespace, r)
        st == [cache |-> c, read_notification_cache |-> n, raised |-> rn.raised,
               error |-> rn.error, requests |-> <<rn.request>>, updates |-> 0]
    IN  IF rn.raised THEN st
        ELSE IF Len(rn.value) = 0 THEN st
        ELSE for_msg_in_notification_msgs(st, namespace, namespace_type, rn.value, answers, 1)

----------------------------------------------------------------------------
(* The state machine *)

\* no call has returned yet, or the caller is done with the last one
NoCall ==
    [op |-> "none", namespace |-> "", namespace_type |-> "", call_cache_api |-> FALSE,
     key |-> "", default |-> None, requests |-> <<>>, updates |-> 0,
     raised |-> FALSE, error |-> NoError, value |-> None]

\* the exchanges the world env has for the client: only a client with a secret
\* reads the clock
Exchanges(env) == IF secret = None THEN env.unsigned ELSE env.signed

\* In the actions the outcome of a call is bound once, as the element of a
\* one-element set.

\* Client(config_server_url, app_id, ip=..., secret=...) in the world env
InitIn(env) ==
    /\ cache = EmptyDict
    /\ read_notification_cache = EmptyDict
    /\ last = NoCall
    /\ ip \in env.ips
    /\ secret \in env.secrets

\* client.update(namespace, namespace_type, call_cache_api)
UpdateIn(env) ==
    /\ last.op = "none"
    /\ \E <<namespace, namespace_type>> \in env.identities, call_cache_api \in BOOLEAN :
         \E answers \in IF call_cache_api THEN Exchanges(env).answers_true
                        ELSE Exchanges(env).answers_false :
          \E u \in {update(cache, namespace, namespace_type, call_cache_api, answers)} :
              /\ cache' = u.cache
              /\ UNCHANGED <<read_notification_cache, ip, secret>>
              /\ last' = [NoCall EXCEPT !.op = "update", !.namespace = namespace,
                             !.namespace_type = namespace_type,
                             !.call_cache_api = call_cache_api,
                             !.requests = u.requests,
                             !.updates = 1,
                             !.raised = u.raised, !.error = u.error]

\* client.get(key, default, namespace, namespace_type, call_cache_api)
GetIn(env) ==
    /\ last.op = "none"
    /\ \E key \in env.keys, default \in env.defaults,
          <<namespace, namespace_type>> \in env.identities, call_cache_api \in BOOLEAN :
         \E answers \in IF call_cache_api /\ RootKey(namespace, namespace_type) \in DOMAIN cache
                        THEN {[cached |-> NotAskedCached, uncached |-> NotAskedUncached]}
                        ELSE IF call_cache_api THEN Exchanges(env).answers_true
                        ELSE Exchanges(env).answers_false :
          \E g \in {get(cache, key, default, namespace, namespace_type, call_cache_api, answers)} :
              /\ cache' = g.cache
              /\ UNCHANGED <<read_notification_cache, ip, secret>>
              /\ last' = [NoCall EXCEPT !.op = "get", !.namespace = namespace,
                             !.namespace_type = namespace_type,
                             !.call_cache_api = call_cache_api,
                             !.key = key, !.default = default,
                             !.requests = g.requests, !.updates = g.updates,
                             !.raised = g.raised, !.error = g.error, !.value = g.value]

\* client.read_notification_and_update(namespace, namespace_type)
ReadNotificationAndUpdateIn(env) ==
    /\ last.op = "none"
    /\ \E <<namespace, namespace_type>> \in env.identities, r \in Exchanges(env).polls :
         \E answers \in PollAnswersIn(Exchanges(env).loops, Len(r.json)) :
          \E p \in {read_notification_and_update(cache, read_notification_cache,
                                                namespace, namespace_type, r, answers)} :
              /\ cache' = p.cache
              /\ read_notification_cache' = p.read_notification_cache
              /\ UNCHANGED <<ip, secret>>
              /\ last' = [NoCall EXCEPT !.op = "read_notification_and_update",
                             !.namespace = namespace,
                             !.namespace_type = namespace_type,
                             !.call_cache_api = TRUE,
                             !.requests = p.requests, !.updates = p.updates,
                             !.raised = p.raised, !.error = p.error]

\* the caller is done with the outcome of the call; the client is at rest
Discard ==
    /\ last.op # "none"
    /\ last' = NoCall
    /\ UNCHANGED <<cache, read_notification_cache, ip, secret>>

Init == InitIn(World)
Update == UpdateIn(World)
Get == GetIn(World)
ReadNotificationAndUpdate == ReadNotificationAndUpdateIn(World)

Next == Update \/ Get \/ ReadNotificationAndUpdate \/ Discard

Spec == Init /\ [][Next]_vars

\* The clients of every configuration, for what their requests carry
InitRequests == InitIn(RequestWorld)
UpdateRequests == UpdateIn(RequestWorld)
GetRequests == GetIn(RequestWorld)
ReadNotificationAndUpdateRequests == ReadNotificationAndUpdateIn(RequestWorld)

NextRequests ==
    UpdateRequests \/ GetRequests \/ ReadNotificationAndUpdateRequests \/ Discard

SpecRequests == InitRequests /\ [][NextRequests]_vars

----------------------------------------------------------------------------
(* What a call did, read off the outcome l its caller saw *)

POLL == "read_notification_and_update"

\* the response to the long poll of a read_notification_and_update
PollResponse(l) == l.requests[1].response

\* the change notices of a poll answered 200
NoticesOf(l) == PollResponse(l).json

PolledWith200(l) == l.op = POLL /\ PollResponse(l).status_code = 200

\* the namespace identity the call was about, as the key of its cache entry
RootKeyOf(l) == RootKey(l.namespace, l.namespace_type)

CachedReads(reqs) == SelectSeq(reqs, LAMBDA q : q.api_path = "configfiles/json")
UncachedReads(reqs) == SelectSeq(reqs, LAMBDA q : q.api_path = "configs")
ConfigReads(reqs) == SelectSeq(reqs, LAMBDA q : q.api_path # "notifications/v2")

\* the refreshes that completed: an update returns normally exactly when its
\* uncached read is answered 200
Refreshed(reqs) ==
    Len(SelectSeq(UncachedReads(reqs), LAMBDA q : q.response.status_code = 200))

\* the configuration mapping a successful config read returned
MappingOf(q) ==
    IF q.api_path = "configs" THEN q.response.json.configurations ELSE q.response.json

\* entry k of dict d is what it was in dict e, absent included
SameEntry(d, e, k) ==
    /\ k \in DOMAIN d <=> k \in DOMAIN e
    /\ k \in DOMAIN d => d[k] = e[k]

----------------------------------------------------------------------------
(* C1 *)

\* C1: when the long poll answers 304, read_notification_and_update returns
\* normally, makes no config read and no update, and leaves the cache and the
\* notification ids exactly as they were before the call.
C1_NotModifiedLeavesClientUntouched ==
    [][ (last'.op = POLL /\ PollResponse(last').status_code = 304)
        => /\ ~last'.raised
           /\ Len(last'.requests) = 1
           /\ Len(ConfigReads(last'.requests)) = 0
           /\ last'.updates = 0
           /\ cache' = cache
           /\ read_notification_cache' = read_notification_cache ]_vars

\* a poll answered 304 on a client that holds an entry and an id for the polled namespace
C1_Witness ==
    /\ last.op = POLL
    /\ PollResponse(last).status_code = 304
    /\ RootKeyOf(last) \in DOMAIN cache
    /\ last.namespace \in DOMAIN read_notification_cache

----------------------------------------------------------------------------
(* C2 *)

\* C2: after read_notification_and_update returns normally from a 200 response
\* with a non-empty array of notices, the id recorded for the polled namespace is
\* the notificationId of the last notice of the array.
C2_RecordsIdOfLastNotice ==
    (PolledWith200(last) /\ ~last.raised /\ Len(NoticesOf(last)) > 0)
    => /\ last.namespace \in DOMAIN read_notification_cache
       /\ read_notification_cache[last.namespace]
            = NoticesOf(last)[Len(NoticesOf(last))].notificationId

\* a poll that returned normally from two notices with different ids
C2_Witness ==
    /\ PolledWith200(last)
    /\ ~last.raised
    /\ Len(NoticesOf(last)) = 2
    /\ NoticesOf(last)[1].notificationId # NoticesOf(last)[2].notificationId
    /\ read_notification_cache[last.namespace] = NoticesOf(last)[2].notificationId

----------------------------------------------------------------------------
(* C3 *)

\* C3 as stated: a 200 poll response invokes update exactly once per notice of
\* its array.
C3_OneUpdatePerNotice ==
    PolledWith200(last) => last.updates = Len(NoticesOf(last))

\* C3, amended: a 200 poll response invokes update (flag true, on the polled
\* identity) once per notice, in order, until one raises: exactly once per notice
\* when the call returns normally, exactly once for one notice, and, when an
\* update raises, once for each notice up to the one whose refresh failed and
\* never for a later one.
C3_OneUpdatePerNoticeUntilOneRaises ==
    PolledWith200(last)
    => LET n == Len(NoticesOf(last))
           k == last.updates
           reads == ConfigReads(last.requests)
       IN  /\ ~last.raised => k = n
           /\ n = 1 => k = 1
           /\ last.raised => /\ k \in 1..n
                             /\ Refreshed(last.requests) = k - 1
                             /\ reads[Len(reads)].response.status_code # 200
           /\ Len(CachedReads(last.requests)) = k
           /\ \A i \in DOMAIN reads :
                /\ reads[i].namespace = last.namespace
                /\ reads[i].namespace_type = last.namespace_type

\* a poll that returned normally from two notices, with two updates
C3_Witness ==
    /\ PolledWith200(last)
    /\ ~last.raised
    /\ Len(NoticesOf(last)) = 2
    /\ last.updates = 2

----------------------------------------------------------------------------
(* C4 *)

\* C4: after read_notification_and_update returns normally from a 200 response
\* with at least one notice, the cache entry of the polled identity is the
\* "configurations" of the response of the uncached endpoint ("configs") read in
\* the last refresh, not the body of the cached endpoint.
C4_EntryIsTheAuthoritativeConfigurations ==
    (PolledWith200(last) /\ ~last.raised /\ Len(NoticesOf(last)) > 0)
    => LET reads == UncachedReads(last.requests)
       IN  /\ Len(reads) > 0
           /\ RootKeyOf(last) \in DOMAIN cache
           /\ reads[Len(reads)].response.status_code = 200
           /\ cache[RootKeyOf(last)] = reads[Len(reads)].response.json.configurations

\* a successful refresh in which the two endpoints returned different mappings
C4_Witness ==
    /\ PolledWith200(last)
    /\ ~last.raised
    /\ Len(NoticesOf(last)) > 0
    /\ LET reads == CachedReads(last.requests)
       IN  reads[Len(reads)].response.json # cache[RootKeyOf(last)]

----------------------------------------------------------------------------
(* C5 *)

\* C5: read_notification_and_update(namespace, type) changes no cache entry but
\* the one of (namespace, type) and no notification id but the one of namespace,
\* whatever the server answers, notices about another namespace included.
C5_PollTouchesOnlyThePolledNamespace ==
    [][ last'.op = POLL
        => /\ \A k \in ((DOMAIN cache) \cup (DOMAIN cache')) \ {RootKeyOf(last')} :
                SameEntry(cache', cache, k)
           /\ \A n \in ((DOMAIN read_notification_cache)
                        \cup (DOMAIN read_notification_cache')) \ {last'.namespace} :
                SameEntry(read_notification_cache', read_notification_cache, n) ]_vars

\* a poll that refreshed on a notice naming another namespace, on a client that
\* holds another entry and the id of another namespace
C5_Witness ==
    /\ PolledWith200(last)
    /\ ~last.raised
    /\ Len(NoticesOf(last)) > 0
    /\ NoticesOf(last)[1].namespaceName # last.namespace
    /\ (DOMAIN cache) \ {RootKeyOf(last)} # {}
    /\ NoticesOf(last)[1].namespaceName \in DOMAIN read_notification_cache

----------------------------------------------------------------------------
(* C6 *)

\* C6 as stated: update makes exactly one read, of the endpoint its flag selects
\* (cached when true, uncached when false), and on success the cache entry is the
\* mapping that read returned.
C6_OneReadOfTheSelectedEndpoint ==
    last.op = "update"
    => /\ Len(last.requests) = 1
       /\ last.requests[1].api_path
            = (IF last.call_cache_api THEN "configfiles/json" ELSE "configs")
       /\ ~last.raised => /\ RootKeyOf(last) \in DOMAIN cache
                          /\ cache[RootKeyOf(last)] = MappingOf(last.requests[1])

----------------------------------------------------------------------------
(* C7 *)

\* C7 as stated: whenever update raises (called directly, by get on a miss, or by
\* read_notification_and_update), the cache entry of its identity is what it was
\* before the call, absent included.  Stated of the calls that invoke update once.
C7_FailedRefreshLeavesEntryUntouched ==
    [][ (last'.raised /\ last'.updates = 1)
        => SameEntry(cache', cache, RootKeyOf(last')) ]_vars

----------------------------------------------------------------------------
(* C8 *)

\* C8: replacement is whole-mapping.  A step leaves each cache entry as it was or
\* makes it, in its entirety, the mapping of one response of the call for that
\* identity; and after a successful update, get through the cache of a key that
\* the new response lacks returns the caller's default, with no request.
C8_ReplacementIsWholeMapping ==
    [][ \A id \in Identities :
          LET k == RootKey(id[1], id[2])
          IN  /\ k \in DOMAIN cache'
                 => \/ k \in DOMAIN cache /\ cache'[k] = cache[k]
                    \/ \E i \in DOMAIN last'.requests :
                         LET q == last'.requests[i]
                         IN  /\ q.api_path # "notifications/v2"
                             /\ q.namespace = id[1]
                             /\ q.namespace_type = id[2]
                             /\ q.response.status_code = 200
                             /\ cache'[k] = MappingOf(q)
              /\ (last'.op = "update" /\ ~last'.raised /\ k = RootKeyOf(last'))
                 => \A key \in QueryKeys, default \in Defaults :
                      key \notin DOMAIN MappingOf(last'.requests[Len(last'.requests)])
                      => LET g == get(cache', key, default, id[1], id[2], TRUE,
                                      [cached |-> NotAskedCached,
                                       uncached |-> NotAskedUncached])
                         IN  /\ ~g.raised
                             /\ g.value = default
                             /\ g.requests = <<>> ]_vars

\* a successful update whose entry held "timeout" (line 99) before the response
\* that lacks it replaced it (line 102)
C8_Witness ==
    /\ last.op = "update"
    /\ ~last.raised
    /\ last.call_cache_api
    /\ "timeout" \in DOMAIN last.requests[1].response.json
    /\ "timeout" \notin DOMAIN cache[RootKeyOf(last)]

----------------------------------------------------------------------------
(* C9 *)

\* C9: get through the cache (call_cache_api true) performs an update exactly
\* when the identity has no entry; when it returns, the entry exists and the
\* value is the entry's value for the key if it has one and the caller's default
\* otherwise; it raises only when a read of that update failed, never for a
\* missing key.
C9_GetThroughTheCache ==
    [][ (last'.op = "get" /\ last'.call_cache_api)
        => LET k == RootKeyOf(last')
           IN  /\ k \notin DOMAIN cache => last'.updates = 1
               /\ k \in DOMAIN cache => /\ last'.updates = 0
                                        /\ last'.requests = <<>>
                                        /\ ~last'.raised
               /\ ~last'.raised
                  => /\ k \in DOMAIN cache'
                     /\ last'.value = (IF last'.key \in DOMAIN cache'[k]
                                       THEN cache'[k][last'.key]
                                       ELSE last'.default)
               /\ last'.raised
                  => /\ Len(last'.requests) > 0
                     /\ last'.requests[Len(last'.requests)].response.status_code # 200
                     /\ last'.error.status_code
                          = last'.requests[Len(last'.requests)].response.status_code ]_vars

\* a get that populated the entry and returned the default for a key it lacks
C9_Witness ==
    /\ last.op = "get"
    /\ last.call_cache_api
    /\ last.updates = 1
    /\ ~last.raised
    /\ last.key = "missing"
    /\ last.default = "0"
    /\ last.key \notin DOMAIN cache[RootKeyOf(last)]
    /\ last.value = "0"

----------------------------------------------------------------------------
(* C10 *)

\* C10: a recorded id is never removed; only read_notification_and_update writes
\* ids, only the id of the polled namespace, and only as the id of a notice of a
\* 200 response whose refresh completed: after the call the id is that of the last
\* notice refreshed successfully, and it is the id from before the call when no
\* refresh completed (the poll failed, or the first update raised).
C10_IdsComeFromRefreshedNotices ==
    [][ /\ \A n \in DOMAIN read_notification_cache : n \in DOMAIN read_notification_cache'
        /\ last'.op # POLL => read_notification_cache' = read_notification_cache
        /\ last'.op = POLL
           => LET done == Refreshed(last'.requests)
              IN  /\ done = 0 => read_notification_cache' = read_notification_cache
                  /\ done > 0
                     => /\ PollResponse(last').status_code = 200
                        /\ done <= Len(NoticesOf(last'))
                        /\ read_notification_cache'
                             = DictSet(read_notification_cache, last'.namespace,
                                       NoticesOf(last')[done].notificationId) ]_vars

\* a poll whose first refresh completed and whose second raised: the id of the
\* first notice stays recorded
C10_Witness ==
    /\ PolledWith200(last)
    /\ last.raised
    /\ Len(NoticesOf(last)) = 2
    /\ last.updates = 2
    /\ NoticesOf(last)[1].notificationId # NoticesOf(last)[2].notificationId
    /\ read_notification_cache[last.namespace] = NoticesOf(last)[1].notificationId

----------------------------------------------------------------------------
(* C11 *)

\* C11: the request of every long poll for a namespace carries exactly one item,
\* with that namespace as namespaceName and as notificationId the id recorded
\* for the namespace before the call, or -1 when none is recorded; so the poll
\* after a refresh that recorded an id sends that id.
C11_PollSendsTheRecordedId ==
    [][ last'.op = POLL
        => LET sent == IF last'.namespace \in DOMAIN read_notification_cache
                       THEN read_notification_cache[last'.namespace]
                       ELSE -1
               q    == last'.requests[1]
           IN  /\ q.api_path = "notifications/v2"
               /\ q.notifications = <<[namespaceName |-> last'.namespace,
                                       notificationId |-> sent]>>
               /\ q.url = NotificationUrl(last'.namespace, sent)
               /\ Len(SelectSeq(last'.requests,
                                LAMBDA x : x.api_path = "notifications/v2")) = 1 ]_vars

\* a poll that sent the id an earlier poll recorded, and recorded a newer one
C11_Witness ==
    /\ last.op = POLL
    /\ last.requests[1].notifications[1].notificationId = 17135
    /\ last.namespace \in DOMAIN read_notification_cache
    /\ read_notification_cache[last.namespace] = 17136

----------------------------------------------------------------------------
(* C12 *)

\* C12: when the long poll is answered with a status other than 200 and 304,
\* read_notification_and_update raises an error carrying the status code and
\* the body of that response, makes no config read and no update, and leaves
\* the cache and the notification ids exactly as they were.
C12_FailedPollRaisesAndLeavesClientUntouched ==
    [][ (last'.op = POLL /\ PollResponse(last').status_code \notin {200, 304})
        => /\ last'.raised
           /\ last'.error = [status_code |-> PollResponse(last').status_code,
                             text |-> PollResponse(last').text]
           /\ Len(last'.requests) = 1
           /\ last'.updates = 0
           /\ cache' = cache
           /\ read_notification_cache' = read_notification_cache ]_vars

\* a poll answered 404 by a client holding an entry and an id
C12_Witness ==
    /\ last.op = POLL
    /\ PollResponse(last).status_code = 404
    /\ last.raised
    /\ last.error.status_code = 404
    /\ RootKeyOf(last) \in DOMAIN cache
    /\ last.namespace \in DOMAIN read_notification_cache

----------------------------------------------------------------------------
(* C13 *)

\* C13: a config read, cached or uncached, answered with a status other than 200
\* makes the call it belongs to (get, update or read_notification_and_update)
\* raise an error carrying the status code and the body of that response: the
\* read is the last request of the call (no retry), and a get returns no value,
\* neither the default nor the entry's.
C13_FailedReadSurfacesToTheCaller ==
    \A i \in DOMAIN last.requests :
        LET q == last.requests[i]
        IN  (q.api_path # "notifications/v2" /\ q.response.status_code # 200)
            => /\ last.raised
               /\ last.error = [status_code |-> q.response.status_code,
                                text |-> q.response.text]
               /\ i = Len(last.requests)
               /\ last.value = NoCall.value

\* a live get that raised although the entry holds a value for the key
C13_Witness ==
    /\ last.op = "get"
    /\ ~last.call_cache_api
    /\ last.raised
    /\ last.error = [status_code |-> 404, text |-> "error"]
    /\ RootKeyOf(last) \in DOMAIN cache
    /\ last.key \in DOMAIN cache[RootKeyOf(last)]

----------------------------------------------------------------------------
(* C14 *)

\* C14: when the client has no secret, no request of any call (config read of
\* either endpoint, long poll) carries an Authorization or a Timestamp header.
C14_NoSecretNoAuthHeaders ==
    secret = None
    => \A i \in DOMAIN last.requests :
           /\ "Authorization" \notin DOMAIN last.requests[i].headers
           /\ "Timestamp" \notin DOMAIN last.requests[i].headers

\* a client without a secret whose poll made a long poll, a cached read and an
\* uncached read
C14_Witness ==
    /\ secret = None
    /\ last.op = POLL
    /\ Len(last.requests) = 3
    /\ Len(CachedReads(last.requests)) = 1
    /\ Len(UncachedReads(last.requests)) = 1

----------------------------------------------------------------------------
(* C15 *)

\* the path and the query of the URL of request q as the server sees them,
\* written out from what the request asks for
PathAndQueryAsked(q) ==
    IF q.api_path = "notifications/v2"
    THEN "/notifications/v2?appId=app1&cluster=default&notifications="
         \o "%5B%7B%22namespaceName%22%3A+%22" \o q.notifications[1].namespaceName
         \o "%22%2C+%22notificationId%22%3A+"
         \o ToString(q.notifications[1].notificationId) \o "%7D%5D"
    ELSE "/" \o q.api_path \o "/app1/default/"
         \o (IF q.namespace_type = "properties" THEN q.namespace
             ELSE q.namespace \o "." \o q.namespace_type)
         \o "?ip=" \o ip

\* C15: when the client has a secret, every request carries a Timestamp header,
\* the clock's milliseconds in decimal, and an Authorization header
\* "Apollo <app_id>:<signature>" whose signature is made under the secret over
\* that same timestamp, a newline, and the path and query of the URL requested
\* (the URL without the server in front).
C15_SecretSignsEveryRequest ==
    secret # None
    => \A i \in DOMAIN last.requests :
           LET q  == last.requests[i]
               ms == ToString(q.response.time \div 1000)
           IN  /\ DOMAIN q.headers = {"Authorization", "Timestamp"}
               /\ q.headers["Timestamp"] = ms
               /\ UrlString(q.url) = "http://h" \o PathAndQueryAsked(q)
               /\ q.headers["Authorization"]
                    = "Apollo app1:base64(hmac_sha1(" \o secret \o "," \o ms \o "\n"
                      \o PathAndQueryAsked(q) \o "))"

\* a signing client whose poll made three requests, the long poll at one time
\* and the reads at another
C15_Witness ==
    /\ secret # None
    /\ last.op = POLL
    /\ Len(last.requests) = 3
    /\ last.requests[1].headers["Timestamp"] = "1500"
    /\ last.requests[2].headers["Timestamp"] = "1501"
    /\ last.requests[3].headers["Timestamp"] = "1501"

----------------------------------------------------------------------------
(* C16 *)

\* the names of the query parameters of a URL
ParameterNames(url) == {url.query[i].name : i \in DOMAIN url.query}

\* C16: the URL of a config read has an ip query parameter exactly when the
\* client was constructed with an IP.
C16_IpParameterOnlyWhenConfigured ==
    \A i \in DOMAIN last.requests :
        LET q == last.requests[i]
        IN  q.api_path # "notifications/v2"
            => ("ip" \in ParameterNames(q.url) <=> ip # None)

----------------------------------------------------------------------------
(* C17 *)

\* what follows the namespace name on the wire, by type
WireSuffix ==
    [properties |-> "", xml |-> ".xml", json |-> ".json",
     yml |-> ".yml", yaml |-> ".yaml", txt |-> ".txt"]

\* C17: on both endpoints the namespace in the path of a config read is the name
\* itself for the properties type and the name followed by "." and the type for
\* xml, json, yml, yaml and txt.
C17_WireNamespaceByType ==
    \A i \in DOMAIN last.requests :
        LET q == last.requests[i]
        IN  q.api_path # "notifications/v2"
            => q.url.path = "/" \o q.api_path \o "/app1/default/"
                            \o q.namespace \o WireSuffix[q.namespace_type]

\* an update of a yaml namespace that read both endpoints
C17_Witness ==
    /\ last.op = "update"
    /\ last.namespace_type = "yaml"
    /\ Len(last.requests) = 2
    /\ last.requests[1].url.path = "/configfiles/json/app1/default/application.yaml"
    /\ last.requests[2].url.path = "/configs/app1/default/application.yaml"

----------------------------------------------------------------------------
(* C18 *)

\* C18: when the long poll answers 200 with an empty array,
\* read_notification_and_update returns normally, makes no config read and no
\* update, and leaves the cache and the notification ids exactly as they were.
C18_EmptyArrayLeavesClientUntouched ==
    [][ (PolledWith200(last') /\ Len(NoticesOf(last')) = 0)
        => /\ ~last'.raised
           /\ Len(last'.requests) = 1
           /\ last'.updates = 0
           /\ cache' = cache
           /\ read_notification_cache' = read_notification_cache ]_vars

\* a poll answered 200 and [] by a client holding an entry and an id
C18_Witness ==
    /\ PolledWith200(last)
    /\ Len(NoticesOf(last)) = 0
    /\ ~last.raised
    /\ RootKeyOf(last) \in DOMAIN cache
    /\ last.namespace \in DOMAIN read_notification_cache

----------------------------------------------------------------------------
(* C19 *)

\* C19: get with call_cache_api false makes exactly one request on every call,
\* an uncached read of the identity asked for, whether or not the identity has
\* an entry; answered 200 it returns the response's configurations[key], or the
\* default when the key is absent, and otherwise it raises; either way it makes
\* no update and leaves the cache and the notification ids as they were.
C19_LiveGetBypassesTheCache ==
    [][ (last'.op = "get" /\ ~last'.call_cache_api)
        => /\ Len(last'.requests) = 1
           /\ LET q == last'.requests[1]
              IN  /\ q.api_path = "configs"
                  /\ q.namespace = last'.namespace
                  /\ q.namespace_type = last'.namespace_type
                  /\ last'.raised <=> q.response.status_code # 200
                  /\ ~last'.raised
                     => last'.value
                          = (IF last'.key \in DOMAIN q.response.json.configurations
                             THEN q.response.json.configurations[last'.key]
                             ELSE last'.default)
           /\ last'.updates = 0
           /\ cache' = cache
           /\ read_notification_cache' = read_notification_cache ]_vars

\* a live get that returned the server's value for a key the entry lacks
C19_Witness ==
    /\ last.op = "get"
    /\ ~last.call_cache_api
    /\ ~last.raised
    /\ RootKeyOf(last) \in DOMAIN cache
    /\ last.key \notin DOMAIN cache[RootKeyOf(last)]
    /\ last.default = "0"
    /\ last.value = "30"

----------------------------------------------------------------------------
(* C20 *)

\* C20: when the identity has an entry, get with call_cache_api true makes no
\* request and no update, does not raise, returns the entry's value for the key
\* or the default when the key is absent, and leaves the cache and the
\* notification ids as they were; an entry that exists changes only in an update
\* of its identity or in a poll of its identity answered 200 with notices.
C20_CacheHitIsLocal ==
    [][ /\ (last'.op = "get" /\ last'.call_cache_api /\ RootKeyOf(last') \in DOMAIN cache)
           => /\ last'.requests = <<>>
              /\ last'.updates = 0
              /\ ~last'.raised
              /\ last'.value = (IF last'.key \in DOMAIN cache[RootKeyOf(last')]
                                THEN cache[RootKeyOf(last')][last'.key]
                                ELSE last'.default)
              /\ cache' = cache
              /\ read_notification_cache' = read_notification_cache
        /\ \A k \in DOMAIN cache :
              ~SameEntry(cache', cache, k)
              => /\ k = RootKeyOf(last')
                 /\ \/ last'.op = "update"
                    \/ PolledWith200(last') /\ Len(NoticesOf(last')) > 0 ]_vars

\* a hit that returned the stored value, not the caller's default
C20_Witness ==
    /\ last.op = "get"
    /\ last.call_cache_api
    /\ last.updates = 0
    /\ last.requests = <<>>
    /\ ~last.raised
    /\ last.key \in DOMAIN cache[RootKeyOf(last)]
    /\ last.default = "0"
    /\ last.value = "30"

====
